---- MODULE Spec2Model ----
(***************************************************************************)
(* Live Interview Mode: chunk recorder, quality gate, concurrency limiter  *)
(* and staggered presenter of the LiveInterviewMode React component.       *)
(*                                                                         *)
(* Two variants of the component are modelled side by side:                *)
(*   "basic"    src/src/components/LiveInterview/LiveInterviewMode.tsx     *)
(*   "enhanced" src/unnamed/part_000, lines 1-903                          *)
(* The variable `variant` is fixed by Init and selects the code path.      *)
(*                                                                         *)
(* Time is counted in milliseconds and advances in steps of TimeStep. A    *)
(* timer holds the time left until it fires; a timer that is due fires     *)
(* before time advances. Date.now() - lastResponseTimeRef.current is kept  *)
(* as sinceFlush, saturated at responseUpdateDelay (the code only compares *)
(* it with responseUpdateDelay and subtracts it from it when smaller).     *)
(*                                                                         *)
(* A chunk id `chunk_${Date.now()}_${n}` is modelled by its counter n.     *)
(***************************************************************************)
EXTENDS Integers, Sequences, FiniteSets, TLC

VARIABLES
    variant,                 \* which source file runs
    isListening,             \* useState: isListening
    activeProcessingCount,   \* useState: activeProcessingCount
    responses,               \* useState: responses (the visible list)
    maxConcurrentProcessing, \* useState: maxConcurrentProcessing
    chunkDuration,           \* useState: chunkDuration (ms)
    responseUpdateDelay,     \* useState: responseUpdateDelay (ms, enhanced)
    minAudioLevel,           \* useState: minAudioLevel (hundredths, enhanced)
    streamRef,               \* streamRef.current: 0 = null, else a stream id
    liveStreams,             \* streams whose tracks have not been stopped
    audioContextRef,         \* audioContextRef.current # null
    processingQueueRef,      \* keys of processingQueueRef.current
    chunkCounterRef,         \* chunkCounterRef.current
    continuousRecordingRef,  \* continuousRecordingRef.current
    recordingIntervalRef,    \* -1 = null, else ms until the interval's next tick
    session,                 \* values closed over by the armed interval's recordChunk
    pendingResponsesRef,     \* pendingResponsesRef.current (enhanced)
    sinceFlush,              \* min(Date.now() - lastResponseTimeRef.current, delay)
    flushTimers,             \* armed setTimeout flushes: ms left, ascending
    startTimers,             \* armed setTimeout(startContinuousRecording, 1000)
    firstChunkTimers,        \* armed setTimeout(recordChunk, 500): closure and ms left
    recorders,               \* MediaRecorders in state 'recording'
    pendingStarts,           \* startListening calls awaiting getUserMedia
    starts,                  \* number of startListening calls so far
    firstChunk,              \* chunkCounterRef in the initial state
    call,                    \* per chunk id: progress/outcome of processAudioChunk
    micLevel,                \* what the analyser reads now: byte average, 0..255
    audioLevel,              \* useState: audioLevel (hundredths)
    monitorAlive,            \* a requestAnimationFrame(monitorAudioLevel) is pending
    clicked,                 \* the render state closed over by each click on start
                             \* whose startContinuousRecording has not run yet
    closedCount,             \* per chunk id: activeProcessingCount closed over by the
                             \* processAudioChunk that was called for it (-1: not called)
    toasts,                  \* error notifications shown so far, per kind
    autoScreenshot,          \* useState: autoScreenshot
    isScreenCapturing,       \* useState: isScreenCapturing
    reply,                   \* the response text last handled by processAudioChunk,
                             \* the toggles that call closed over, and what it made of it
    clearedIds               \* history: the segments whose processAudioChunk was in
                             \* flight when clearResponses last ran and still is

vars == <<variant, isListening, activeProcessingCount, responses,
          maxConcurrentProcessing, chunkDuration, responseUpdateDelay,
          minAudioLevel, streamRef, liveStreams, audioContextRef,
          processingQueueRef, chunkCounterRef, continuousRecordingRef,
          recordingIntervalRef, session, pendingResponsesRef, sinceFlush,
          flushTimers, startTimers, firstChunkTimers, recorders,
          pendingStarts, starts, firstChunk, call,
          micLevel, audioLevel, monitorAlive, clicked, closedCount, toasts,
          autoScreenshot, isScreenCapturing, reply, clearedIds>>

\* the microphone and the audio-level monitor
audio == <<micLevel, audioLevel, monitorAlive>>

\* the closures of the start clicks and the error notifications
notes == <<clicked, closedCount, toasts>>

\* the screenshot toggles and the response text last parsed
screen == <<autoScreenshot, isScreenCapturing, reply>>

----------------------------------------------------------------------------
(* Bounds of the model *)

\* chunk ids generated after the initial state
MaxNewChunks == 3
\* startListening calls in one behaviour
MaxStarts == 1

(* Program constants *)

\* slice(0, 20): capacity of the visible list
Capacity == 20
\* prev.length > 15: the length above which a flush marks stale records
StaleTrigger == 15
\* i > 10: the index above which a record is marked stale
StaleIndex == 10
\* audioBlob.size > 1000 (basic gate)
BasicMinSize == 1000
\* audioBlob.size > 8000 (enhanced gate)
EnhancedMinSize == 8000
\* audioBlob.size < 5000 (enhanced processAudioChunk early return)
EarlyReturnSize == 5000
\* setTimeout(recordChunk, 500)
FirstChunkDelay == 500
\* setTimeout(() => startContinuousRecording(), 1000)
StartDelay == 1000
\* chunk duration used for the basic variant (slider value)
BasicChunkDuration == 5000
\* chunk duration used for the enhanced variant (slider value)
EnhancedChunkDuration == 2500
\* response delay used for the enhanced variant (slider maximum)
EnhancedResponseDelay == 3000
\* useState(2): maxConcurrentProcessing
DefaultMaxConcurrent == 2
\* useState(0.02): minAudioLevel, in hundredths
DefaultMinAudioLevel == 2
\* activeProcessingCount <= 2 (basic catch block)
BasicToastLimit == 2
\* activeProcessingCount <= 1 (enhanced catch block)
EnhancedToastLimit == 1

\* granularity of the clock: every timer of the model is a multiple of it
TimeStep == FirstChunkDelay

\* numbers of segments already admitted in the initial states: none, a list
\* of StaleTrigger records, a list of Capacity - 1 records
AgedCounts == {0, StaleTrigger, Capacity - 1}

\* seq without its i-th element
RemoveAt(seq, i) == SubSeq(seq, 1, i - 1) \o SubSeq(seq, i + 1, Len(seq))

Min(a, b) == IF a < b THEN a ELSE b
Max(a, b) == IF a > b THEN a ELSE b

\* audioLevel as closed over by recordChunk, in hundredths: silent, equal to
\* the default minimum, above it.  The closed-over value is left open: it is
\* the audioLevel of the render whose start button was clicked, which the
\* monitor as written leaves at 0 (see MonitorAudioLevel), the case in which
\* the enhanced recordChunk skips every capture
AudioLevels == {0, DefaultMinAudioLevel, DefaultMinAudioLevel + 1}
\* average / 255 (basic monitor)
ByteMax == 255
\* speechAverage / 128 (enhanced monitor)
SpeechScale == 128
\* what the analyser reads: silence, and a level above SpeechScale
MicLevels == {0, 200}

\* normalizedLevel of monitorAudioLevel, in hundredths
Normalized(v, raw) ==
    IF v = "basic" THEN (raw * 100) \div ByteMax
    ELSE Min((raw * 100) \div SpeechScale, 100)

\* audioBlob.size of a finalized segment; 0 means chunks.length = 0
BlobSizes == {0, BasicMinSize, EarlyReturnSize + 1000, EnhancedMinSize + 1000}

ChunkIds == 1..(Capacity - 1 + MaxNewChunks)

InFlight == {"encode", "config", "fetch"}
Settled == {"success", "rejected", "error"}

----------------------------------------------------------------------------
(* Records of the visible list *)

\* placeholderResponse
Placeholder(id) == [id |-> id, isProcessing |-> TRUE, isStale |-> FALSE]
\* geminiResponse
Completed(id) == [id |-> id, isProcessing |-> FALSE, isStale |-> FALSE]

Ids(list) == {list[i].id : i \in 1..Len(list)}

\* prev.filter(r => r.id !== chunkId)
RemoveId(list, id) == SelectSeq(list, LAMBDA r : r.id # id)

\* a completion that moves the answered record to the head of the list
ReplaceIdToFront(list, id) ==
    IF \E i \in 1..Len(list) : list[i].id = id
    THEN <<Completed(id)>> \o SelectSeq(list, LAMBDA r : r.id # id)
    ELSE list

\* prev.map(r => r.id === chunkId ? geminiResponse : r)
ReplaceId(list, id) ==
    [i \in 1..Len(list) |-> IF list[i].id = id THEN Completed(id) ELSE list[i]]

\* slice(0, n) with an end index one too large
SliceOneTooMany(list, n) == SubSeq(list, 1, Min(Len(list), n + 1))

\* x.slice(0, n)
Slice(list, n) == SubSeq(list, 1, Min(Len(list), n))

----------------------------------------------------------------------------
(* Staggered presenter *)

\* the stale marking triggered only by a list that is already full
MarkStaleWhenFull(prev) ==
    IF Len(prev) >= Capacity
    THEN [i \in 1..Len(prev) |->
            IF i - 1 > StaleIndex THEN [prev[i] EXCEPT !.isStale = TRUE]
            ELSE prev[i]]
    ELSE prev

\* prev.length > 15 ? prev.map((r, i) => i > 10 ? {...r, isStale: true} : r) : prev
MarkStale(prev) ==
    IF Len(prev) > StaleTrigger
    THEN [i \in 1..Len(prev) |->
            IF i - 1 > StaleIndex THEN [prev[i] EXCEPT !.isStale = TRUE]
            ELSE prev[i]]
    ELSE prev

\* [...responsesToAdd, ...updatedPrev].slice(0, 20)
Flush(responsesToAdd, prev) == Slice(responsesToAdd \o MarkStale(prev), Capacity)

\* [placeholderResponse, ...prev.slice(0, 19)]
InsertFront(placeholder, prev) == <<placeholder>> \o Slice(prev, Capacity - 1)

\* a sorted sequence of timers with one more timer
RECURSIVE InsertSorted(_, _)
InsertSorted(timers, t) ==
    IF timers = <<>> THEN <<t>>
    ELSE IF t < Head(timers) THEN <<t>> \o timers
         ELSE <<Head(timers)>> \o InsertSorted(Tail(timers), t)

\* a flush that never waits for the delay to pass
FlushIsDueAlways(elapsed, delay) == elapsed >= 0

\* now - lastResponseTimeRef.current >= responseUpdateDelay
FlushIsDue(elapsed, delay) == elapsed >= delay

\* updateResponsesWithDelay(newResponse)
UpdateResponsesWithDelay(newResponse) ==
    LET pending == Append(pendingResponsesRef, newResponse) IN
    IF FlushIsDue(sinceFlush, responseUpdateDelay)
    THEN /\ responses' = Flush(pending, responses)
         /\ pendingResponsesRef' = <<>>
         /\ sinceFlush' = 0
         /\ flushTimers' = flushTimers
    ELSE /\ pendingResponsesRef' = pending
         /\ flushTimers' = InsertSorted(flushTimers, responseUpdateDelay - sinceFlush)
         /\ UNCHANGED <<responses, sinceFlush>>

\* the callback of the setTimeout armed by updateResponsesWithDelay
FlushTimerFire ==
    /\ flushTimers # <<>> /\ Head(flushTimers) = 0
    /\ flushTimers' = Tail(flushTimers)
    /\ IF pendingResponsesRef # <<>>
       THEN /\ responses' = Flush(pendingResponsesRef, responses)
            /\ pendingResponsesRef' = <<>>
            /\ sinceFlush' = 0
       ELSE UNCHANGED <<responses, pendingResponsesRef, sinceFlush>>
    /\ UNCHANGED audio
    /\ UNCHANGED screen
    /\ UNCHANGED clearedIds
    /\ UNCHANGED notes
    /\ UNCHANGED <<variant, isListening, activeProcessingCount,
                   maxConcurrentProcessing, chunkDuration, responseUpdateDelay,
                   minAudioLevel, streamRef, liveStreams, audioContextRef,
                   processingQueueRef, chunkCounterRef, continuousRecordingRef,
                   recordingIntervalRef, session, startTimers, firstChunkTimers,
                   recorders, pendingStarts, starts, firstChunk, call>>

\* a clearResponses that leaves the pending buffer alone
ClearResponsesKeepsPending ==
    /\ variant = "enhanced"
    /\ responses # <<>>
    /\ responses' = <<>>
    /\ UNCHANGED pendingResponsesRef
    /\ UNCHANGED audio
    /\ UNCHANGED screen
    /\ clearedIds' = {id \in ChunkIds : call[id] \notin Settled \cup {"none"}}
    /\ UNCHANGED notes
    /\ UNCHANGED <<variant, isListening, activeProcessingCount,
                   maxConcurrentProcessing, chunkDuration, responseUpdateDelay,
                   minAudioLevel, streamRef, liveStreams, audioContextRef,
                   processingQueueRef, chunkCounterRef, continuousRecordingRef,
                   recordingIntervalRef, session, sinceFlush, flushTimers,
                   startTimers, firstChunkTimers, recorders, pendingStarts,
                   starts, firstChunk, call>>

\* clearResponses; its button is disabled while the visible list is empty
ClearResponses ==
    /\ variant = "enhanced"
    /\ responses # <<>>
    /\ responses' = <<>>
    /\ pendingResponsesRef' = <<>>
    /\ UNCHANGED audio
    /\ UNCHANGED screen
    /\ clearedIds' = {id \in ChunkIds : call[id] \notin Settled \cup {"none"}}
    /\ UNCHANGED notes
    /\ UNCHANGED <<variant, isListening, activeProcessingCount,
                   maxConcurrentProcessing, chunkDuration, responseUpdateDelay,
                   minAudioLevel, streamRef, liveStreams, audioContextRef,
                   processingQueueRef, chunkCounterRef, continuousRecordingRef,
                   recordingIntervalRef, session, sinceFlush, flushTimers,
                   startTimers, firstChunkTimers, recorders, pendingStarts,
                   starts, firstChunk, call>>

----------------------------------------------------------------------------
(* Quality gate, concurrency limiter and processAudioChunk *)

\* the admission test with the capacity comparison off by one
ShouldProcessWhenFull(v, size, queueLength, limit, level, minLevel) ==
    IF v = "basic"
    THEN size > BasicMinSize /\ queueLength <= limit
    ELSE size > EnhancedMinSize /\ queueLength <= limit /\ level > minLevel

\* the admission test of mediaRecorder.onstop
ShouldProcess(v, size, queueLength, limit, level, minLevel) ==
    IF v = "basic"
    THEN size > BasicMinSize /\ queueLength < limit
    ELSE size > EnhancedMinSize /\ queueLength < limit /\ level > minLevel

\* an early return taken for every enhanced blob
EarlyReturnAlways(v, size) == v = "enhanced"

\* if (audioBlob.size < 5000) return;  (enhanced processAudioChunk)
EarlyReturn(v, size) == v = "enhanced" /\ size < EarlyReturnSize

\* the queue entry deleted at the end of the try block instead of in finally
ReleaseOnSuccessOnly(queue, id, outcome) ==
    IF outcome = "success" THEN queue \ {id} ELSE queue

\* finally: delete processingQueueRef.current[chunkId]
Release(queue, id, outcome) == queue \ {id}

\* a cleanup that leaves the count as it is
DecrementSkipped(count) == count

\* finally: setActiveProcessingCount(prev => Math.max(0, prev - 1))
Decrement(count) == Max(0, count - 1)

\* the visible list after processAudioChunk has settled with `outcome`
SettleResponses(prev, id, outcome) ==
    IF outcome = "success" THEN ReplaceId(prev, id) ELSE RemoveId(prev, id)

\* the catch block's condition, on the activeProcessingCount that the running
\* processAudioChunk closed over: <= 2 (basic), <= 1 (enhanced)
ShowsToast(v, active) ==
    IF v = "basic" THEN active <= BasicToastLimit ELSE active <= EnhancedToastLimit

\* processAudioChunk from the point where it settles: the success path, a
\* parser rejection (early return in try) or the catch block, then finally
Settle(id, outcome) ==
    /\ responses' = SettleResponses(responses, id, outcome)
    /\ toasts' = IF outcome = "error" /\ ShowsToast(variant, closedCount[id])
                 THEN [toasts EXCEPT !.processing = @ + 1]
                 ELSE toasts
    /\ activeProcessingCount' = Decrement(activeProcessingCount)
    /\ processingQueueRef' = Release(processingQueueRef, id, outcome)
    /\ call' = [call EXCEPT ![id] = outcome]

\* the FileReader of processAudioChunk finishes (onloadend)
EncodeDone(id, ok) ==
    /\ call[id] = "encode"
    /\ IF ok
       THEN /\ call' = [call EXCEPT ![id] = "config"]
            /\ UNCHANGED <<responses, activeProcessingCount, processingQueueRef, toasts>>
       ELSE IF variant = "enhanced"
            THEN Settle(id, "error")
            \* basic: onloadend reads .split of a null result and throws in
            \* the event handler; the awaited promise is never settled
            ELSE /\ call' = [call EXCEPT ![id] = "hung"]
                 /\ UNCHANGED <<responses, activeProcessingCount, processingQueueRef, toasts>>
    /\ UNCHANGED audio
    /\ UNCHANGED screen
    /\ clearedIds' = {i \in clearedIds : call'[i] \notin Settled}
    /\ UNCHANGED <<clicked, closedCount>>
    /\ UNCHANGED <<variant, isListening, maxConcurrentProcessing, chunkDuration,
                   responseUpdateDelay, minAudioLevel, streamRef, liveStreams,
                   audioContextRef, chunkCounterRef, continuousRecordingRef,
                   recordingIntervalRef, session, pendingResponsesRef,
                   sinceFlush, flushTimers, startTimers, firstChunkTimers,
                   recorders, pendingStarts, starts, firstChunk>>

\* window.electronAPI.getConfig() finishes; ok = a gemini key is configured
ConfigDone(id, ok) ==
    /\ call[id] = "config"
    /\ IF ok
       THEN /\ call' = [call EXCEPT ![id] = "fetch"]
            /\ UNCHANGED <<responses, activeProcessingCount, processingQueueRef, toasts>>
       ELSE Settle(id, "error")
    /\ UNCHANGED audio
    /\ UNCHANGED screen
    /\ clearedIds' = {i \in clearedIds : call'[i] \notin Settled}
    /\ UNCHANGED <<clicked, closedCount>>
    /\ UNCHANGED <<variant, isListening, maxConcurrentProcessing, chunkDuration,
                   responseUpdateDelay, minAudioLevel, streamRef, liveStreams,
                   audioContextRef, chunkCounterRef, continuousRecordingRef,
                   recordingIntervalRef, session, pendingResponsesRef,
                   sinceFlush, flushTimers, startTimers, firstChunkTimers,
                   recorders, pendingStarts, starts, firstChunk>>

\* fetch(...) finishes and what follows it in processAudioChunk runs to its
\* return or throw, the screenshot toggles and the response text left aside
FetchSettles(id, outcome) ==
    /\ call[id] = "fetch"
    /\ Settle(id, outcome)
    /\ UNCHANGED audio
    /\ UNCHANGED <<clicked, closedCount>>
    /\ UNCHANGED <<variant, isListening, maxConcurrentProcessing, chunkDuration,
                   responseUpdateDelay, minAudioLevel, streamRef, liveStreams,
                   audioContextRef, chunkCounterRef, continuousRecordingRef,
                   recordingIntervalRef, session, pendingResponsesRef,
                   sinceFlush, flushTimers, startTimers, firstChunkTimers,
                   recorders, pendingStarts, starts, firstChunk>>

\* fetch(...) finishes and the response is parsed
FetchDone(id, outcome) ==
    /\ FetchSettles(id, outcome)
    /\ UNCHANGED screen
    /\ clearedIds' = {i \in clearedIds : call'[i] \notin Settled}

\* the stop event of recorder r is due: its setTimeout(..., chunkDuration)
\* has expired, or the tracks of its stream have ended
StopDue(r) == r.t = 0 \/ r.ended

\* milliseconds of audio recorder r has gathered
Recorded(r) == r.duration - r.t

\* a dropped segment that was counted as being processed before the gate ran
DropSegmentCounted ==
    /\ activeProcessingCount' = activeProcessingCount + 1
    /\ UNCHANGED <<responses, call, pendingResponsesRef, sinceFlush, flushTimers,
                   processingQueueRef, closedCount>>

\* onstop when chunks.length = 0 or shouldProcess is false: nothing is done
DropSegment ==
    UNCHANGED <<activeProcessingCount, responses, call, pendingResponsesRef,
                sinceFlush, flushTimers, processingQueueRef, closedCount>>

\* mediaRecorder.ondataavailable then mediaRecorder.onstop of recorder r, whose
\* blob has `size` bytes; size = 0 stands for chunks.length = 0
RecorderStop(r, size) ==
    /\ r \in recorders /\ StopDue(r)
    /\ size > 0 => Recorded(r) > 0
    /\ recorders' = recorders \ {r}
    /\ IF size > 0 /\ ShouldProcess(variant, size, Cardinality(processingQueueRef),
                                    r.limit, r.level, r.min)
       THEN \* processAudioChunk(audioBlob, chunkId) up to its first await ...
            /\ IF EarlyReturn(variant, size)
               THEN UNCHANGED <<activeProcessingCount, responses, call,
                                pendingResponsesRef, sinceFlush, flushTimers>>
               ELSE /\ activeProcessingCount' = activeProcessingCount + 1
                    /\ call' = [call EXCEPT ![r.id] = "encode"]
                    /\ IF variant = "basic"
                       THEN /\ responses' = InsertFront(Placeholder(r.id), responses)
                            /\ UNCHANGED <<pendingResponsesRef, sinceFlush, flushTimers>>
                       ELSE UpdateResponsesWithDelay(Placeholder(r.id))
            \* ... then processingQueueRef.current[chunkId] = {...}
            /\ processingQueueRef' = processingQueueRef \cup {r.id}
            /\ closedCount' = [closedCount EXCEPT ![r.id] = r.active]
       ELSE DropSegment
    /\ UNCHANGED audio
    /\ UNCHANGED screen
    /\ UNCHANGED clearedIds
    /\ UNCHANGED <<clicked, toasts>>
    /\ UNCHANGED <<variant, isListening, maxConcurrentProcessing, chunkDuration,
                   responseUpdateDelay, minAudioLevel, streamRef, liveStreams,
                   audioContextRef, chunkCounterRef, continuousRecordingRef,
                   recordingIntervalRef, session, startTimers, firstChunkTimers,
                   pendingStarts, starts, firstChunk>>

----------------------------------------------------------------------------
(* Chunk recorder *)

\* an interval that is cleared instead of armed
TickPeriodCleared(v, duration) == -1

\* a tick period of chunkDuration * 0.4
TickPeriodShort(v, duration) == (duration * 4) \div 10

\* chunkDuration * 0.7 (basic), chunkDuration * 0.8 (enhanced)
TickPeriod(v, duration) ==
    IF v = "basic" THEN (duration * 7) \div 10 ELSE (duration * 8) \div 10


\* the chunk id built without advancing the counter
GenerateChunkIdNoIncrement(counter) == counter

\* generateChunkId: ++chunkCounterRef.current, the counter part of the id
GenerateChunkId(counter) == counter + 1

\* recordChunk's two early returns; c holds the values its closure captured
RecordChunkSkips(c, recording, stream) ==
    \/ ~recording
    \/ stream = 0
    \/ variant = "enhanced" /\ c.level < c.min

\* a recordChunk that reads the sliders' current values
RecordChunkCurrent(c, recording, stream) ==
    IF RecordChunkSkips(c, recording, stream)
    THEN UNCHANGED <<chunkCounterRef, recorders>>
    ELSE /\ chunkCounterRef < firstChunk + MaxNewChunks
         /\ chunkCounterRef' = GenerateChunkId(chunkCounterRef)
         /\ recorders' = recorders \cup
               {[id |-> GenerateChunkId(chunkCounterRef), t |-> chunkDuration, ended |-> FALSE,
                 stream |-> stream, duration |-> chunkDuration,
                 level |-> c.level, limit |-> maxConcurrentProcessing, min |-> c.min,
                 active |-> c.active,
                 heard |-> Normalized(variant, micLevel)]}

\* recordChunk, run with the closure c while `recording` and `stream` are the
\* current values of continuousRecordingRef and streamRef
RecordChunk(c, recording, stream) ==
    IF RecordChunkSkips(c, recording, stream)
    THEN UNCHANGED <<chunkCounterRef, recorders>>
    ELSE /\ chunkCounterRef < firstChunk + MaxNewChunks
         /\ chunkCounterRef' = GenerateChunkId(chunkCounterRef)
         /\ recorders' = recorders \cup
               {[id |-> GenerateChunkId(chunkCounterRef), t |-> c.duration, ended |-> FALSE,
                 stream |-> stream, duration |-> c.duration,
                 level |-> c.level, limit |-> c.limit, min |-> c.min,
                 active |-> c.active,
                 heard |-> Normalized(variant, micLevel)]}

\* recordChunk when new MediaRecorder(...) throws: the catch block logs the
\* error, no chunk id was generated and no recorder exists
ConstructorThrows(c, recording, stream) ==
    /\ ~RecordChunkSkips(c, recording, stream)
    /\ UNCHANGED <<chunkCounterRef, recorders>>

\* recordChunk when mediaRecorder.start() throws: generateChunkId has run, the
\* catch block logs the error, the recorder never records and no timer is armed
StartThrows(c, recording, stream) ==
    /\ ~RecordChunkSkips(c, recording, stream)
    /\ chunkCounterRef < firstChunk + MaxNewChunks
    /\ chunkCounterRef' = GenerateChunkId(chunkCounterRef)
    /\ UNCHANGED recorders

\* one call of recordChunk: fault tells whether new MediaRecorder(...)
\* ("constructor") or mediaRecorder.start() ("start") throws in it
RecordChunkUsing(fault, c, recording, stream) ==
    IF fault = "constructor" THEN ConstructorThrows(c, recording, stream)
    ELSE IF fault = "start" THEN StartThrows(c, recording, stream)
    ELSE RecordChunk(c, recording, stream)

\* the state of the current render that the callbacks of this render close
\* over
Render ==
    [active |-> activeProcessingCount, limit |-> maxConcurrentProcessing,
     min |-> minAudioLevel, duration |-> chunkDuration]

\* the values a call of startContinuousRecording closes over: those of the
\* render whose start button was clicked; the basic variant's callback reads
\* no audio level
Closure(level) ==
    [level |-> IF variant = "basic" THEN 0 ELSE level,
     limit |-> Head(clicked).limit, min |-> Head(clicked).min,
     duration |-> Head(clicked).duration, active |-> Head(clicked).active]

\* a startContinuousRecording that does not look at continuousRecordingRef
StartContinuousRecordingUnguarded(level, stream, fault) ==
    IF stream = 0
    THEN UNCHANGED <<continuousRecordingRef, recordingIntervalRef, session,
                     firstChunkTimers, chunkCounterRef, recorders>>
    ELSE /\ continuousRecordingRef' = TRUE
         /\ session' = Closure(level)
         /\ recordingIntervalRef' = TickPeriod(variant, Closure(level).duration)
         /\ IF variant = "basic"
            THEN /\ RecordChunkUsing(fault, Closure(level), TRUE, stream)
                 /\ UNCHANGED firstChunkTimers
            ELSE /\ firstChunkTimers' =
                       Append(firstChunkTimers,
                              Closure(level) @@ [t |-> FirstChunkDelay])
                 /\ UNCHANGED <<chunkCounterRef, recorders>>

\* startContinuousRecording, run while `stream` is the value of streamRef;
\* fault is what happens in its call of recordChunk
StartContinuousRecordingUsing(level, stream, fault) ==
    IF stream = 0 \/ continuousRecordingRef
    THEN UNCHANGED <<continuousRecordingRef, recordingIntervalRef, session,
                     firstChunkTimers, chunkCounterRef, recorders>>
    ELSE /\ continuousRecordingRef' = TRUE
         /\ session' = Closure(level)
         /\ recordingIntervalRef' = TickPeriod(variant, Closure(level).duration)
         /\ IF variant = "basic"
            THEN /\ RecordChunkUsing(fault, Closure(level), TRUE, stream)
                 /\ UNCHANGED firstChunkTimers
            ELSE /\ firstChunkTimers' =
                       Append(firstChunkTimers,
                              Closure(level) @@ [t |-> FirstChunkDelay])
                 /\ UNCHANGED <<chunkCounterRef, recorders>>

\* startContinuousRecording whose recordChunk does not throw
StartContinuousRecording(level, stream) ==
    StartContinuousRecordingUsing(level, stream, "none")

\* the interval armed by startContinuousRecording ticks; fault is what
\* happens in the call of recordChunk
IntervalTickUsing(fault) ==
    /\ recordingIntervalRef = 0
    /\ RecordChunkUsing(fault, session, continuousRecordingRef, streamRef)
    /\ recordingIntervalRef' = TickPeriod(variant, session.duration)
    /\ UNCHANGED audio
    /\ UNCHANGED screen
    /\ UNCHANGED clearedIds
    /\ UNCHANGED notes
    /\ UNCHANGED <<variant, isListening, activeProcessingCount, responses,
                   maxConcurrentProcessing, chunkDuration, responseUpdateDelay,
                   minAudioLevel, streamRef, liveStreams, audioContextRef,
                   processingQueueRef, continuousRecordingRef, session,
                   pendingResponsesRef, sinceFlush, flushTimers, startTimers,
                   firstChunkTimers, pendingStarts, starts, firstChunk, call>>

\* a tick whose recordChunk does not throw
IntervalTick == IntervalTickUsing("none")

\* setTimeout(recordChunk, 500) fires (enhanced); fault is what happens in
\* recordChunk
FirstChunkFireUsing(fault) ==
    /\ firstChunkTimers # <<>> /\ Head(firstChunkTimers).t = 0
    /\ RecordChunkUsing(fault, Head(firstChunkTimers), continuousRecordingRef, streamRef)
    /\ firstChunkTimers' = Tail(firstChunkTimers)
    /\ UNCHANGED audio
    /\ UNCHANGED screen
    /\ UNCHANGED clearedIds
    /\ UNCHANGED notes
    /\ UNCHANGED <<variant, isListening, activeProcessingCount, responses,
                   maxConcurrentProcessing, chunkDuration, responseUpdateDelay,
                   minAudioLevel, streamRef, liveStreams, audioContextRef,
                   processingQueueRef, continuousRecordingRef,
                   recordingIntervalRef, session, pendingResponsesRef,
                   sinceFlush, flushTimers, startTimers, pendingStarts, starts,
                   firstChunk, call>>

\* the first chunk's timer fires and recordChunk does not throw
FirstChunkFire == FirstChunkFireUsing("none")

----------------------------------------------------------------------------
(* Start and stop *)

\* the button calls startListening, which awaits getUserMedia
StartListening ==
    /\ ~isListening
    /\ starts < MaxStarts
    /\ starts' = starts + 1
    /\ pendingStarts' = pendingStarts + 1
    /\ UNCHANGED audio
    /\ UNCHANGED screen
    /\ UNCHANGED clearedIds
    /\ clicked' = Append(clicked, Render)
    /\ UNCHANGED <<closedCount, toasts>>
    /\ UNCHANGED <<variant, isListening, activeProcessingCount, responses,
                   maxConcurrentProcessing, chunkDuration, responseUpdateDelay,
                   minAudioLevel, streamRef, liveStreams, audioContextRef,
                   processingQueueRef, chunkCounterRef, continuousRecordingRef,
                   recordingIntervalRef, session, pendingResponsesRef,
                   sinceFlush, flushTimers, startTimers, firstChunkTimers,
                   recorders, firstChunk, call>>

\* monitorAudioLevel, called while `recording` is the value of
\* continuousRecordingRef (analyserRef is set before every call): it returns at
\* once when recording is off, else it publishes the level and asks for the
\* next animation frame
MonitorAudioLevel(recording) ==
    IF recording
    THEN /\ audioLevel' = Normalized(variant, micLevel)
         /\ monitorAlive' = TRUE
    ELSE UNCHANGED <<audioLevel, monitorAlive>>

\* the animation frame requested by monitorAudioLevel arrives
MonitorFrame ==
    /\ monitorAlive
    /\ IF continuousRecordingRef
       THEN MonitorAudioLevel(TRUE)
       ELSE /\ monitorAlive' = FALSE
            /\ UNCHANGED audioLevel
    /\ UNCHANGED <<variant, isListening, activeProcessingCount, responses,
                   maxConcurrentProcessing, chunkDuration, responseUpdateDelay,
                   minAudioLevel, streamRef, liveStreams, audioContextRef,
                   processingQueueRef, chunkCounterRef, continuousRecordingRef,
                   recordingIntervalRef, session, pendingResponsesRef,
                   sinceFlush, flushTimers, startTimers, firstChunkTimers,
                   recorders, pendingStarts, starts, firstChunk, call, micLevel>>
    /\ UNCHANGED notes
    /\ UNCHANGED screen
    /\ UNCHANGED clearedIds

\* the sound at the microphone changes; a recorder that is capturing keeps
\* the loudest level of its capture window in `heard`
MicChange(raw) ==
    /\ raw # micLevel
    /\ micLevel' = raw
    /\ recorders' = {IF r.ended THEN r
                     ELSE [r EXCEPT !.heard = Max(@, Normalized(variant, raw))] :
                     r \in recorders}
    /\ UNCHANGED <<variant, isListening, activeProcessingCount, responses,
                   maxConcurrentProcessing, chunkDuration, responseUpdateDelay,
                   minAudioLevel, streamRef, liveStreams, audioContextRef,
                   processingQueueRef, chunkCounterRef, continuousRecordingRef,
                   recordingIntervalRef, session, pendingResponsesRef,
                   sinceFlush, flushTimers, startTimers, firstChunkTimers,
                   pendingStarts, starts, firstChunk, call, audioLevel,
                   monitorAlive>>
    /\ UNCHANGED notes
    /\ UNCHANGED screen
    /\ UNCHANGED clearedIds

\* the start button is clicked again while the first getUserMedia is pending
\* (isListening is still false, so the button still calls startListening)
DoubleClick ==
    /\ ~isListening
    /\ pendingStarts = 1 /\ starts = MaxStarts
    /\ starts' = starts + 1
    /\ pendingStarts' = pendingStarts + 1
    /\ UNCHANGED audio
    /\ UNCHANGED screen
    /\ UNCHANGED clearedIds
    /\ clicked' = Append(clicked, Render)
    /\ UNCHANGED <<closedCount, toasts>>
    /\ UNCHANGED <<variant, isListening, activeProcessingCount, responses,
                   maxConcurrentProcessing, chunkDuration, responseUpdateDelay,
                   minAudioLevel, streamRef, liveStreams, audioContextRef,
                   processingQueueRef, chunkCounterRef, continuousRecordingRef,
                   recordingIntervalRef, session, pendingResponsesRef,
                   sinceFlush, flushTimers, startTimers, firstChunkTimers,
                   recorders, firstChunk, call>>

\* getUserMedia resolves: the rest of startListening's try block; fault is
\* what happens in the basic variant's first call of recordChunk
GetUserMediaResolveUsing(level, fault) ==
    /\ pendingStarts > 0
    /\ pendingStarts' = pendingStarts - 1
    /\ LET stream == starts - pendingStarts + 1 IN
         /\ streamRef' = stream
         /\ liveStreams' = liveStreams \cup {stream}
         /\ audioContextRef' = TRUE
         /\ isListening' = TRUE
         /\ IF variant = "basic"
            THEN /\ StartContinuousRecordingUsing(level, stream, fault)
                 /\ UNCHANGED startTimers
            ELSE /\ startTimers' = Append(startTimers, StartDelay)
                 /\ UNCHANGED <<continuousRecordingRef, recordingIntervalRef,
                                session, firstChunkTimers, chunkCounterRef,
                                recorders>>
    \* await initializeAudioAnalysis(stream), which calls monitorAudioLevel()
    \* before startContinuousRecording has run
    /\ MonitorAudioLevel(continuousRecordingRef)
    /\ UNCHANGED micLevel
    \* the basic variant calls startContinuousRecording at once
    /\ clicked' = IF variant = "basic" THEN Tail(clicked) ELSE clicked
    /\ UNCHANGED <<closedCount, toasts>>
    /\ UNCHANGED screen
    /\ UNCHANGED clearedIds
    /\ UNCHANGED <<variant, activeProcessingCount, responses,
                   maxConcurrentProcessing, chunkDuration, responseUpdateDelay,
                   minAudioLevel, processingQueueRef, pendingResponsesRef,
                   sinceFlush, flushTimers, starts, firstChunk, call>>

\* getUserMedia resolves and no recordChunk throws
GetUserMediaResolve(level) == GetUserMediaResolveUsing(level, "none")

\* a catch block that also sets the listening flag
GetUserMediaRejectStarts ==
    /\ pendingStarts > 0
    /\ pendingStarts' = pendingStarts - 1
    /\ isListening' = TRUE
    /\ UNCHANGED audio
    /\ UNCHANGED screen
    /\ UNCHANGED clearedIds
    \* the call that fails is the oldest one still awaiting getUserMedia
    /\ clicked' = RemoveAt(clicked, Len(startTimers) + 1)
    \* showToast('Error', ...) of the catch block
    /\ toasts' = [toasts EXCEPT !.microphone = @ + 1]
    /\ UNCHANGED closedCount
    /\ UNCHANGED <<variant, activeProcessingCount, responses,
                   maxConcurrentProcessing, chunkDuration, responseUpdateDelay,
                   minAudioLevel, streamRef, liveStreams, audioContextRef,
                   processingQueueRef, chunkCounterRef, continuousRecordingRef,
                   recordingIntervalRef, session, pendingResponsesRef,
                   sinceFlush, flushTimers, startTimers, firstChunkTimers,
                   recorders, starts, firstChunk, call>>

\* getUserMedia rejects: startListening's catch block
GetUserMediaReject ==
    /\ pendingStarts > 0
    /\ pendingStarts' = pendingStarts - 1
    /\ UNCHANGED audio
    /\ UNCHANGED screen
    /\ UNCHANGED clearedIds
    \* the call that fails is the oldest one still awaiting getUserMedia
    /\ clicked' = RemoveAt(clicked, Len(startTimers) + 1)
    \* showToast('Error', ...) of the catch block
    /\ toasts' = [toasts EXCEPT !.microphone = @ + 1]
    /\ UNCHANGED closedCount
    /\ UNCHANGED <<variant, isListening, activeProcessingCount, responses,
                   maxConcurrentProcessing, chunkDuration, responseUpdateDelay,
                   minAudioLevel, streamRef, liveStreams, audioContextRef,
                   processingQueueRef, chunkCounterRef, continuousRecordingRef,
                   recordingIntervalRef, session, pendingResponsesRef,
                   sinceFlush, flushTimers, startTimers, firstChunkTimers,
                   recorders, starts, firstChunk, call>>

\* setTimeout(() => startContinuousRecording(), 1000) fires (enhanced)
StartTimerFire(level) ==
    /\ startTimers # <<>> /\ Head(startTimers) = 0
    /\ startTimers' = Tail(startTimers)
    /\ StartContinuousRecording(level, streamRef)
    /\ UNCHANGED audio
    /\ UNCHANGED screen
    /\ UNCHANGED clearedIds
    /\ clicked' = Tail(clicked)
    /\ UNCHANGED <<closedCount, toasts>>
    /\ UNCHANGED <<variant, isListening, activeProcessingCount, responses,
                   maxConcurrentProcessing, chunkDuration, responseUpdateDelay,
                   minAudioLevel, streamRef, liveStreams, audioContextRef,
                   processingQueueRef, pendingResponsesRef, sinceFlush,
                   flushTimers, pendingStarts, starts, firstChunk, call>>

\* a recorder after the tracks of `stream` were stopped: a recorder of that
\* stream becomes inactive and its stop event is due
TrackEnded(r, stream) == IF r.stream = stream THEN [r EXCEPT !.ended = TRUE] ELSE r

\* stopListening, with stopContinuousRecording
StopListening ==
    /\ isListening
    \* stopContinuousRecording
    /\ continuousRecordingRef' = FALSE
    /\ recordingIntervalRef' = -1
    /\ pendingResponsesRef' = <<>>
    \* streamRef.current.getTracks().forEach(track => track.stop())
    /\ recorders' = {TrackEnded(r, streamRef) : r \in recorders}
    /\ liveStreams' = liveStreams \ {streamRef}
    /\ streamRef' = 0
    /\ audioContextRef' = FALSE
    /\ isListening' = FALSE
    \* setAudioLevel(0)
    /\ audioLevel' = 0
    /\ UNCHANGED <<micLevel, monitorAlive>>
    /\ UNCHANGED notes
    /\ UNCHANGED screen
    /\ UNCHANGED clearedIds
    /\ UNCHANGED <<variant, activeProcessingCount, responses,
                   maxConcurrentProcessing, chunkDuration, responseUpdateDelay,
                   minAudioLevel, processingQueueRef, chunkCounterRef, session,
                   sinceFlush, flushTimers, startTimers, firstChunkTimers,
                   pendingStarts, starts, firstChunk, call>>

----------------------------------------------------------------------------
(* Time *)

TimerDue ==
    \/ recordingIntervalRef = 0
    \/ flushTimers # <<>> /\ Head(flushTimers) = 0
    \/ startTimers # <<>> /\ Head(startTimers) = 0
    \/ firstChunkTimers # <<>> /\ Head(firstChunkTimers).t = 0
    \/ \E r \in recorders : StopDue(r)

Elapse(timers) ==
    IF timers = <<>> THEN <<>> ELSE [i \in 1..Len(timers) |-> timers[i] - TimeStep]

\* TimeStep milliseconds pass
Tick ==
    /\ ~TimerDue
    /\ recordingIntervalRef' =
          IF recordingIntervalRef = -1 THEN -1 ELSE recordingIntervalRef - TimeStep
    /\ flushTimers' = Elapse(flushTimers)
    /\ startTimers' = Elapse(startTimers)
    /\ firstChunkTimers' =
          IF firstChunkTimers = <<>> THEN <<>>
          ELSE [i \in 1..Len(firstChunkTimers) |->
                  [firstChunkTimers[i] EXCEPT !.t = @ - TimeStep]]
    /\ recorders' = {[r EXCEPT !.t = @ - TimeStep] : r \in recorders}
    /\ sinceFlush' = Min(sinceFlush + TimeStep, responseUpdateDelay)
    /\ UNCHANGED audio
    /\ UNCHANGED screen
    /\ UNCHANGED clearedIds
    /\ UNCHANGED notes
    /\ UNCHANGED <<variant, isListening, activeProcessingCount, responses,
                   maxConcurrentProcessing, chunkDuration, responseUpdateDelay,
                   minAudioLevel, streamRef, liveStreams, audioContextRef,
                   processingQueueRef, chunkCounterRef, continuousRecordingRef,
                   session, pendingResponsesRef, pendingStarts, starts, firstChunk, call>>

----------------------------------------------------------------------------
(* Initial states *)

\* no response has been handled; otherwise reply holds the segment's id, the
\* toggles its processAudioChunk closed over, the confidence of the record
\* of the segment and, once the response is parsed, what was made of it
NoReply == [stage |-> "none"]

NoClosure == [level |-> 0, limit |-> 0, min |-> 0, duration |-> 0, active |-> 0]

Settings ==
    /\ variant \in {"basic", "enhanced"}
    /\ maxConcurrentProcessing = DefaultMaxConcurrent
    /\ chunkDuration = IF variant = "basic" THEN BasicChunkDuration
                       ELSE EnhancedChunkDuration
    /\ responseUpdateDelay = EnhancedResponseDelay
    /\ minAudioLevel = DefaultMinAudioLevel

Idle ==
    /\ isListening = FALSE
    /\ streamRef = 0
    /\ liveStreams = {}
    /\ audioContextRef = FALSE
    /\ continuousRecordingRef = FALSE
    /\ recordingIntervalRef = -1
    /\ session = NoClosure
    /\ pendingResponsesRef = <<>>
    /\ sinceFlush = responseUpdateDelay
    /\ flushTimers = <<>>
    /\ startTimers = <<>>
    /\ firstChunkTimers = <<>>
    /\ recorders = {}
    /\ pendingStarts = 0
    /\ starts = 0
    /\ micLevel = 0
    /\ audioLevel = 0
    /\ monitorAlive = FALSE
    /\ clicked = <<>>
    /\ toasts = [processing |-> 0, microphone |-> 0]
    /\ clearedIds = {}

\* useState(true), useState(false); no response has been handled
ScreenDefaults ==
    /\ autoScreenshot = TRUE
    /\ isScreenCapturing = FALSE
    /\ reply = NoReply

\* the visible list after segments 1..n were admitted one after the other,
\* each more than responseUpdateDelay after the one before, where segment 1
\* is still being processed and the others were answered: newest first; the
\* enhanced flushes on lists longer than StaleTrigger have marked the records
\* they found above index StaleIndex
AgedList(v, n) ==
    [i \in 1..n |->
        [id |-> n + 1 - i,
         isProcessing |-> (i = n),
         isStale |-> (v = "enhanced" /\ n > StaleTrigger + 1 /\ i - 1 > StaleIndex + 1)]]

\* the component as mounted (n = 0), or after a session that was stopped:
\* segment 1 was admitted and its network call has not returned yet,
\* segments 2..n were admitted one after the other and answered
Aged(n) ==
    /\ firstChunk = n
    /\ chunkCounterRef = n
    /\ responses = AgedList(variant, n)
    /\ activeProcessingCount = IF n = 0 THEN 0 ELSE 1
    /\ processingQueueRef = IF n = 0 THEN {} ELSE {1}
    /\ call = [id \in ChunkIds |->
                 IF id > n THEN "none" ELSE IF id = 1 THEN "fetch" ELSE "success"]
    \* that session's start was clicked while nothing was being processed
    /\ closedCount = [id \in ChunkIds |-> IF id > n THEN -1 ELSE 0]

Init == Settings /\ Idle /\ ScreenDefaults /\ \E n \in AgedCounts : Aged(n)

Next ==
    \/ StartListening
    \/ \E level \in AudioLevels : GetUserMediaResolve(level)
    \/ GetUserMediaReject
    \/ \E level \in AudioLevels : StartTimerFire(level)
    \/ FirstChunkFire
    \/ IntervalTick
    \/ \E r \in recorders, size \in BlobSizes : RecorderStop(r, size)
    \/ \E id \in ChunkIds, ok \in BOOLEAN : EncodeDone(id, ok)
    \/ \E id \in ChunkIds, ok \in BOOLEAN : ConfigDone(id, ok)
    \/ \E id \in ChunkIds, outcome \in Settled : FetchDone(id, outcome)
    \/ FlushTimerFire
    \/ ClearResponses
    \/ StopListening
    \/ Tick

\* Next leaves the microphone and the audio-level monitor alone: no action of
\* Next reads micLevel, and monitorAudioLevel is first called before
\* continuousRecordingRef is set, so that no animation frame is ever requested
Spec == Init /\ [][Next]_vars

\* the freshly mounted component, with a microphone whose level changes, the
\* audio-level monitor, and a second click on the start button
InitAudio == Settings /\ Idle /\ ScreenDefaults /\ Aged(0)

NextAudio ==
    \/ Next
    \/ DoubleClick
    \/ MonitorFrame
    \/ \E raw \in MicLevels : MicChange(raw)

SpecAudio == InitAudio /\ [][NextAudio]_vars

\* the freshly mounted component with a MediaRecorder whose constructor or
\* start() may throw in any call of recordChunk
NextFaults ==
    \/ Next
    \/ \E level \in AudioLevels : GetUserMediaResolveUsing(level, "constructor")
    \/ \E level \in AudioLevels : GetUserMediaResolveUsing(level, "start")
    \/ IntervalTickUsing("constructor")
    \/ IntervalTickUsing("start")
    \/ FirstChunkFireUsing("constructor")
    \/ FirstChunkFireUsing("start")

SpecFaults == InitAudio /\ [][NextFaults]_vars

----------------------------------------------------------------------------
(* The settings sliders *)

\* positions tried on the "Chunk Duration" slider (both are on the grid of
\* either variant's slider) and on the "Max Parallel Processing" slider
ChunkDurations == {EnhancedChunkDuration, BasicChunkDuration}
MaxConcurrents == 1..3

\* onChange of the chunk-duration slider; a duration whose tick period is
\* not a multiple of TimeStep is tried only once no later start can read it
SetChunkDuration(d) ==
    /\ d # chunkDuration
    /\ TickPeriod(variant, d) % TimeStep = 0 \/ starts = MaxStarts
    /\ chunkDuration' = d
    /\ UNCHANGED audio
    /\ UNCHANGED notes
    /\ UNCHANGED screen
    /\ UNCHANGED clearedIds
    /\ UNCHANGED <<variant, isListening, activeProcessingCount, responses,
                   maxConcurrentProcessing, responseUpdateDelay, minAudioLevel,
                   streamRef, liveStreams, audioContextRef, chunkCounterRef,
                   continuousRecordingRef, recordingIntervalRef, session,
                   processingQueueRef, pendingResponsesRef, sinceFlush,
                   flushTimers, startTimers, firstChunkTimers, recorders, call,
                   pendingStarts, starts, firstChunk>>

\* onChange of the max-parallel slider, which only the basic variant shows
SetMaxConcurrentProcessing(n) ==
    /\ variant = "basic"
    /\ n # maxConcurrentProcessing
    /\ maxConcurrentProcessing' = n
    /\ UNCHANGED audio
    /\ UNCHANGED notes
    /\ UNCHANGED screen
    /\ UNCHANGED clearedIds
    /\ UNCHANGED <<variant, isListening, activeProcessingCount, responses,
                   chunkDuration, responseUpdateDelay, minAudioLevel,
                   streamRef, liveStreams, audioContextRef, chunkCounterRef,
                   continuousRecordingRef, recordingIntervalRef, session,
                   processingQueueRef, pendingResponsesRef, sinceFlush,
                   flushTimers, startTimers, firstChunkTimers, recorders, call,
                   pendingStarts, starts, firstChunk>>

\* the freshly mounted component whose sliders are moved at any time
NextSettings ==
    \/ Next
    \/ \E d \in ChunkDurations : SetChunkDuration(d)
    \/ \E n \in MaxConcurrents : SetMaxConcurrentProcessing(n)

SpecSettings == InitAudio /\ [][NextSettings]_vars

----------------------------------------------------------------------------
(* The response text and what processAudioChunk makes of it *)

\* lengths tried for the trimmed text after TRANSCRIPTION:, after ANSWER:,
\* and for text outside both
TranscriptionLens == {0, 4, 5, 9, 10, 11, 21}
AnswerLens == {0, 12, 31}
FreeLens == {0, 40}

\* 'TRANSCRIPTION: ', '\nANSWER: ' and 'UNCLEAR_AUDIO' counted in characters
TranscriptionLabelLen == 15
AnswerLabelLen == 9
SentinelLen == 13

\* 'unclear', the shorter of the two words the enhanced quality check looks for
UnclearLen == 7

\* the text of data.candidates[0].content.parts[0].text, '' when it is
\* missing, described by what the parser looks at:
\*   sentinel            'UNCLEAR_AUDIO' occurs in it
\*   tLabel, tLen        'TRANSCRIPTION:' occurs; length of the trimmed group
\*   tUnclear            the group contains 'unclear' or 'inaudible'
\*   tQuestion           the group contains '?'
\*   aLabel, aLen, aLang 'ANSWER:' occurs; length of the trimmed group; the
\*                       group contains the lower-cased language name
\*   free, freeLang      characters before the labels; they contain the
\*                       lower-cased language name
Contents ==
    {c \in [sentinel : BOOLEAN, tLabel : BOOLEAN, tLen : TranscriptionLens,
            tUnclear : BOOLEAN, tQuestion : BOOLEAN, aLabel : BOOLEAN,
            aLen : AnswerLens, aLang : BOOLEAN, free : FreeLens,
            freeLang : BOOLEAN] :
        /\ ~c.tLabel => c.tLen = 0
        /\ c.tUnclear => c.tLen >= UnclearLen
        /\ c.tQuestion => c.tLen >= 1
        /\ ~c.aLabel => c.aLen = 0
        /\ c.aLang => c.aLen >= 1
        /\ c.freeLang => c.free >= 1}

\* content.length
ContentLength(c) ==
    (IF c.sentinel THEN SentinelLen ELSE 0)
    + (IF c.tLabel THEN TranscriptionLabelLen + c.tLen ELSE 0)
    + (IF c.aLabel THEN AnswerLabelLen + c.aLen ELSE 0)
    + c.free

\* 'Could not transcribe audio' and 'No response generated' in characters
FallbackTranscriptionLen == 26
FallbackAnswerLen == 21

BasicMinTranscription == 10
EnhancedMinContent == 20
EnhancedMinTranscription == 5

\* transcription.length
TranscriptionLength(v, c) ==
    IF c.tLabel /\ c.tLen > 0 THEN c.tLen
    ELSE IF v = "basic" THEN FallbackTranscriptionLen ELSE 0

\* answer.length
AnswerLength(v, c) ==
    IF c.aLabel /\ c.aLen > 0 THEN c.aLen
    ELSE IF v = "basic" THEN FallbackAnswerLen ELSE ContentLength(c)

\* answer.includes(currentLanguage.toLowerCase())
AnswerHasLanguage(v, c) ==
    IF c.aLabel /\ c.aLen > 0 THEN c.aLang
    ELSE IF v = "basic" THEN FALSE ELSE c.aLang \/ c.freeLang

\* the early returns of processAudioChunk between response.json() and the
\* construction of the result record
Rejects(v, c) ==
    IF v = "basic"
    THEN \/ c.sentinel
         \/ TranscriptionLength(v, c) < BasicMinTranscription
    ELSE \/ ContentLength(c) = 0
         \/ c.sentinel
         \/ ContentLength(c) < EnhancedMinContent
         \/ TranscriptionLength(v, c) < EnhancedMinTranscription
         \/ c.tLabel /\ c.tUnclear

\* confidence in hundredths
PlaceholderConfidence == 0
BasicConfidence == 80
BaseConfidence == 70
GoodConfidence == 90
ConfidenceBonus == 5
MaxConfidence == 95
GoodTranscriptionLen == 20
GoodAnswerLen == 30

\* the enhanced "let confidence" after its three updates
RawConfidence(c) ==
    (IF TranscriptionLength("enhanced", c) > GoodTranscriptionLen
        /\ AnswerLength("enhanced", c) > GoodAnswerLen
     THEN GoodConfidence ELSE BaseConfidence)
    + (IF c.tQuestion THEN ConfidenceBonus ELSE 0)
    + (IF AnswerHasLanguage("enhanced", c) THEN ConfidenceBonus ELSE 0)

ConfidenceUnclipped(v, c) ==
    IF v = "basic" THEN BasicConfidence ELSE RawConfidence(c)

\* the confidence field of the result record
Confidence(v, c) ==
    IF v = "basic" THEN BasicConfidence
    ELSE Min(RawConfidence(c), MaxConfidence)

ScreenshotMinTranscription == 10

\* whether window.electronAPI.triggerScreenshot() is called for an accepted
\* response (the enhanced calls it from a setTimeout nothing clears); auto
\* and capturing are the toggles processAudioChunk closed over
TriggersScreenshot(v, auto, capturing, c) ==
    /\ auto
    /\ capturing
    /\ v = "enhanced" => TranscriptionLength(v, c) > ScreenshotMinTranscription

\* response.ok and response.json() resolved to text c for segment id:
\* processAudioChunk parses it and returns
FetchReply(id, c) ==
    /\ reply.stage = "fetch"
    /\ FetchSettles(id, IF Rejects(variant, c) THEN "rejected" ELSE "success")
    /\ reply' = [stage |-> "done", id |-> id,
                 auto |-> reply.auto, capturing |-> reply.capturing,
                 content |-> c,
                 accepted |-> ~Rejects(variant, c),
                 transcription |-> TranscriptionLength(variant, c),
                 confidence |-> IF Rejects(variant, c) THEN 0
                                ELSE Confidence(variant, c),
                 triggered |-> /\ ~Rejects(variant, c)
                               /\ TriggersScreenshot(variant, reply.auto,
                                                     reply.capturing, c)]
    /\ UNCHANGED <<autoScreenshot, isScreenCapturing, clearedIds>>

Rest ==
    <<variant, isListening, activeProcessingCount, responses,
      maxConcurrentProcessing, chunkDuration, responseUpdateDelay,
      minAudioLevel, streamRef, liveStreams, audioContextRef, chunkCounterRef,
      continuousRecordingRef, recordingIntervalRef, session,
      processingQueueRef, pendingResponsesRef, sinceFlush, flushTimers,
      startTimers, firstChunkTimers, recorders, call, pendingStarts, starts,
      firstChunk, micLevel, audioLevel, monitorAlive, clicked, closedCount,
      toasts, clearedIds>>

\* onChange of the "Auto Screenshot" checkbox
ToggleAutoScreenshot ==
    /\ autoScreenshot' = ~autoScreenshot
    /\ UNCHANGED <<isScreenCapturing, reply>>
    /\ UNCHANGED Rest

\* toggleScreenCapture: switching on awaits a first triggerScreenshot(), and
\* when that fails nothing changes
ToggleScreenCapture ==
    /\ isScreenCapturing' = ~isScreenCapturing
    /\ UNCHANGED <<autoScreenshot, reply>>
    /\ UNCHANGED Rest

\* a stopped session as in Aged(n) whose start was clicked with the toggles
\* as they are now: the call for segment 1 closed over them and waits for
\* its fetch
InitReply ==
    /\ Settings
    /\ Idle
    /\ \E n \in AgedCounts \ {0} : Aged(n)
    /\ autoScreenshot \in BOOLEAN
    /\ isScreenCapturing \in BOOLEAN
    /\ reply = [stage |-> "fetch", id |-> 1, auto |-> autoScreenshot,
                capturing |-> isScreenCapturing,
                confidence |-> PlaceholderConfidence]

NextReply ==
    \/ \E c \in Contents : FetchReply(1, c)
    \/ ToggleAutoScreenshot
    \/ ToggleScreenCapture

SpecReply == InitReply /\ [][NextReply]_vars

----------------------------------------------------------------------------
(* Claims *)

Dropped(id) == id <= chunkCounterRef /\ call[id] = "none" /\ \A r \in recorders : r.id # id

\* C1: at every reachable state the number of entries in the processing queue
\* is at most maxConcurrentProcessing.
C1_QueueBounded == Cardinality(processingQueueRef) <= maxConcurrentProcessing

\* C1 witness: the queue is full and a later segment was finalized and dropped
C1_Witness ==
    /\ Cardinality(processingQueueRef) = maxConcurrentProcessing
    /\ \E id \in ChunkIds : Dropped(id) /\ \A q \in processingQueueRef : q < id

\* C2: every registered entry is removed exactly once, by the cleanup of its
\* own processAudioChunk call, on success, parser rejection and error alike: an
\* entry leaves the queue only in the step in which its own call settles, one
\* entry per step; no entry remains once its call has settled; an id is
\* registered only before its call has run, so it cannot be removed twice.
C2_ReleasedExactlyOnce ==
    [][/\ \A id \in processingQueueRef \ processingQueueRef' :
             call[id] \in InFlight /\ call'[id] \in Settled
       /\ Cardinality(processingQueueRef \ processingQueueRef') <= 1
       /\ \A id \in ChunkIds : call'[id] \in Settled => id \notin processingQueueRef'
       /\ \A id \in processingQueueRef' \ processingQueueRef : call[id] = "none"]_vars

\* C2 witness: three segments of this behaviour settled, one with each outcome,
\* and none of them is in the queue
C2_Witness ==
    \E a, b, c \in ChunkIds :
        /\ a > firstChunk /\ b > firstChunk /\ c > firstChunk
        /\ call[a] = "success" /\ call[b] = "rejected" /\ call[c] = "error"
        /\ {a, b, c} \cap processingQueueRef = {}

\* C3 (as stated): if every external operation of an admitted segment finishes,
\* its queue entry is removed; so an entry is in the queue only while one of
\* the segment's external operations is still outstanding.
C3_EntryOnlyWhileOperationOutstanding ==
    \A id \in processingQueueRef : call[id] \in InFlight

\* C4 (as stated): after stop, while recording is not active, no new
\* PendingRequest is registered and no new placeholder is created.
C4_NoAdmissionAfterStop ==
    [][~continuousRecordingRef =>
          /\ processingQueueRef' \subseteq processingQueueRef
          /\ Ids(responses') \subseteq Ids(responses)
          /\ Ids(pendingResponsesRef') \subseteq Ids(pendingResponsesRef)]_vars

\* C5 (as stated): the listening flag is cleared and the microphone stream is
\* released only when no call is in flight any more.
C5_StopAwaitsInFlight ==
    [][(isListening /\ ~isListening') \/ (streamRef # 0 /\ streamRef' = 0)
          => \A id \in ChunkIds : call'[id] \notin InFlight]_vars

C8_ListCapacity == Len(responses) <= Capacity

\* C8 witness: the list is full and an answered record of it was truncated away
C8_Witness ==
    /\ Len(responses) = Capacity
    /\ \E id \in ChunkIds : call[id] = "success" /\ id \notin Ids(responses)

\* a step that flushes the pending buffer into the visible list (enhanced):
\* only a flush adds records to the visible list
FlushStep == variant = "enhanced" /\ Ids(responses') \ Ids(responses) # {}
Flushed == Cardinality(Ids(responses') \ Ids(responses))

\* the records of the old list above index StaleIndex that are still in the
\* new list are marked stale there
StaleAfterFlush ==
    \A i \in 1..Len(responses) :
        i - 1 > StaleIndex /\ i + Flushed <= Len(responses')
            => /\ responses'[i + Flushed].id = responses[i].id
               /\ responses'[i + Flushed].isStale

C12_UniqueIds ==
    /\ \A r \in recorders :
          r.id \in ChunkIds /\ r.id <= chunkCounterRef /\ call[r.id] = "none"
    /\ \A r1, r2 \in recorders : r1.id = r2.id => r1 = r2
    /\ \A i, j \in 1..Len(responses) : i # j => responses[i].id # responses[j].id
    /\ \A i, j \in 1..Len(pendingResponsesRef) :
          i # j => pendingResponsesRef[i].id # pendingResponsesRef[j].id
    /\ Ids(responses) \cap Ids(pendingResponsesRef) = {}
    /\ \A id \in Ids(responses) \cup Ids(pendingResponsesRef) : call[id] # "none"

\* C12 witness: two segments of this behaviour are in the visible list while a
\* third one is being captured
C12_Witness ==
    /\ \E a, b \in Ids(responses) : a # b /\ a > firstChunk /\ b > firstChunk
    /\ \E r \in recorders : r.id > firstChunk

\* C13: a step that finalizes a segment without registering it in the
\* processing queue (the segment failed the gate) leaves the visible list, the
\* pending buffer and its timers, the processing queue, activeProcessingCount
\* and the progress of every call unchanged.
C13_DropHasNoSideEffect ==
    [][\A r \in recorders :
          recorders' = recorders \ {r} /\ r.id \notin processingQueueRef'
             => UNCHANGED <<responses, pendingResponsesRef, flushTimers, sinceFlush,
                            processingQueueRef, activeProcessingCount, call>>]_vars

\* C13 witness: the enhanced session's level equals minAudioLevel, so its
\* segments are captured and then fail the gate; one was dropped and the
\* visible list is as it was
C13_Witness ==
    /\ variant = "enhanced" /\ continuousRecordingRef
    /\ session.level = session.min
    /\ \E id \in ChunkIds : id > firstChunk /\ Dropped(id)
    /\ responses = AgedList(variant, firstChunk)

C15_TickStartsCapture ==
    [][(/\ recordingIntervalRef = 0 /\ recordingIntervalRef' > 0
        /\ continuousRecordingRef /\ streamRef # 0
        /\ Normalized(variant, micLevel) > minAudioLevel)
          => chunkCounterRef' = GenerateChunkId(chunkCounterRef)]_vars

\* C16 (as stated): while recording is on, the audio-level monitor has its
\* next animation frame pending, so that audioLevel keeps being refreshed.
C16_MonitorRunsWhileRecording == continuousRecordingRef => monitorAlive

Position(list, id) == CHOOSE i \in 1..Len(list) : list[i].id = id

\* the call of segment id, whose placeholder is visible, is answered in this step
Completes(id) ==
    /\ \E i \in 1..Len(responses) :
          responses[i].id = id /\ responses[i].isProcessing
    /\ \E i \in 1..Len(responses') :
          responses'[i].id = id /\ ~responses'[i].isProcessing

\* C20 (as stated): when the call of an earlier recorded segment a is answered
\* after the call of a later recorded segment b, the record of a lies above
\* the record of b, as the order of completion has it and the order of
\* recording has not.
C20_CompletionOrder ==
    [][\A a, b \in Ids(responses) \cap Ids(responses') :
          (/\ a < b
           /\ Completes(a)
           /\ ~responses[Position(responses, b)].isProcessing)
             => Position(responses', a) < Position(responses', b)]_vars

\* the ids of the records of the list that are in ids, in the list's order
Kept(list, ids) ==
    SelectSeq([i \in 1..Len(list) |-> list[i].id], LAMBDA id : id \in ids)

\* C20 (amended): no step changes the relative position of two records of the
\* visible list; the answer of a call replaces its placeholder where it is,
\* whichever call is answered first.
C20_PlacementOrder ==
    [][responses' # responses
          => Kept(responses, Ids(responses')) = Kept(responses', Ids(responses))]_vars

\* C20 witness: of two segments admitted in this session the later recorded
\* one has been answered while the call of the earlier one is still
\* outstanding; the later recorded one lies above the earlier one
C20_Witness ==
    \E a, b \in Ids(responses) :
       /\ firstChunk < a /\ a < b
       /\ call[a] \in InFlight /\ call[b] = "success"
       /\ responses[Position(responses, a)].isProcessing
       /\ ~responses[Position(responses, b)].isProcessing
       /\ Position(responses, b) < Position(responses, a)

\* C21: a segment is registered in the processing queue only while no segment
\* whose capture started later (a larger chunk counter) has been registered.
C21_AdmittedInRecordingOrder ==
    [][\A a \in processingQueueRef' \ processingQueueRef :
          \A b \in ChunkIds :
             b > a => b \notin processingQueueRef /\ call[b] = "none"]_vars

\* C22: whatever a call of recordChunk or the processing of a segment does,
\* after every step in which recording is on the interval is armed; a throw
\* in recordChunk and a failed call leave recordingIntervalRef armed.
C22_ScheduleSurvives ==
    [][continuousRecordingRef' => recordingIntervalRef' >= 0]_vars

\* C22 witness: the basic session's first capture threw in start() (its chunk
\* id was consumed and no recorder runs), and the next tick has just started
\* the capture of the second chunk
C22_Witness ==
    /\ variant = "basic" /\ continuousRecordingRef
    /\ chunkCounterRef = firstChunk + 2
    /\ Dropped(firstChunk + 1)
    /\ recordingIntervalRef = TickPeriod(variant, session.duration)
    /\ \E r \in recorders : r.id = firstChunk + 2 /\ r.t = r.duration

\* C23 (as stated): while every segment processed so far has failed (no call
\* has succeeded, the failures form one burst), at most one error
\* notification has been shown.
C23_OneToastPerBurst ==
    (\A id \in ChunkIds : call[id] # "success") => toasts.processing <= 1

MinTranscription(v) ==
    IF v = "basic" THEN BasicMinTranscription ELSE EnhancedMinTranscription

\* C25: a response whose extracted transcription is missing, empty or shorter
\* than the minimum length is rejected whatever its answer is, and so is a
\* response without the TRANSCRIPTION:/ANSWER: labels: the call ends as a
\* rejection and no record of the segment is shown.
C25_NoTranscriptionRejected ==
    (/\ reply.stage = "done"
     /\ \/ ~reply.content.tLabel
        \/ reply.content.tLen < MinTranscription(variant))
    => /\ ~reply.accepted
       /\ call[reply.id] = "rejected"
       /\ reply.id \notin Ids(responses)

C27_ConfidenceRange ==
    /\ reply.stage = "fetch" => reply.confidence = 0
    /\ reply.stage = "done" /\ reply.accepted
          => reply.confidence >= 70 /\ reply.confidence <= 95

\* C27 witness: an accepted enhanced record whose base and bonuses add up to
\* 1.00 and whose confidence is 0.95
C27_Witness ==
    /\ variant = "enhanced"
    /\ reply.stage = "done" /\ reply.accepted
    /\ RawConfidence(reply.content) = 100
    /\ reply.confidence = 95
    /\ \E i \in 1..Len(responses) :
          responses[i].id = reply.id /\ ~responses[i].isProcessing

\* C28: when microphone access is denied the session does not start: the
\* step that shows the notification shows exactly one, ends that call of
\* startListening without another getUserMedia, and changes neither the
\* listening flag, the stream, the audio context, the schedule nor the
\* recorders; after the first click the flag is false and no stream is held.
C28_DeniedDoesNotStart ==
    [][toasts'.microphone # toasts.microphone
          => /\ toasts'.microphone = toasts.microphone + 1
             /\ pendingStarts' = pendingStarts - 1
             /\ UNCHANGED <<isListening, streamRef, liveStreams, audioContextRef,
                            continuousRecordingRef, recordingIntervalRef,
                            session, startTimers, firstChunkTimers, recorders,
                            chunkCounterRef>>
             /\ starts = 1 => /\ ~isListening'
                              /\ streamRef' = 0 /\ liveStreams' = {}
                              /\ ~continuousRecordingRef'
                              /\ recordingIntervalRef' = -1]_vars

\* C28 witness: the only click was denied
C28_Witness ==
    /\ starts = 1 /\ pendingStarts = 0
    /\ toasts.microphone = 1
    /\ ~isListening /\ streamRef = 0 /\ liveStreams = {}
    /\ ~continuousRecordingRef /\ recordingIntervalRef = -1
    /\ startTimers = <<>> /\ firstChunkTimers = <<>>

\* C29: the screenshot trigger is invoked only after an accepted answer and
\* only while the auto-screenshot toggle and screen capture are both enabled.
C29_TriggerOnlyWhileEnabled ==
    [][(/\ reply.stage = "fetch"
        /\ reply'.stage = "done"
        /\ reply'.triggered)
          => /\ reply'.accepted
             /\ call'[reply'.id] = "success"
             /\ autoScreenshot
             /\ isScreenCapturing]_vars

C31_CountMatchesQueue ==
    /\ activeProcessingCount = Cardinality(processingQueueRef)
    \* a call whose cleanup is still to run finds a count of at least 1
    /\ \A id \in ChunkIds :
          call[id] \in {"encode", "config", "fetch"} => activeProcessingCount >= 1

\* C31 witness: two calls are in flight after a third has settled
C31_Witness ==
    /\ activeProcessingCount = 2
    /\ Cardinality(processingQueueRef) = 2
    /\ \E id \in ChunkIds :
          /\ id > firstChunk
          /\ call[id] \in Settled
          /\ id \notin processingQueueRef

\* C32: the queue entry of an admitted segment is registered in the step that
\* invokes processAudioChunk, before the cleanup of that call; the cleanup
\* finds the entry and removes it; a registered segment's call has been
\* started and has not returned (no early return leaves an entry behind).
C32_RegisteredBeforeCleanup ==
    [][/\ \A id \in processingQueueRef' \ processingQueueRef :
             /\ call[id] = "none" /\ call'[id] = "encode"
             /\ activeProcessingCount' = activeProcessingCount + 1
       /\ \A id \in ChunkIds :
             call[id] \in InFlight /\ call'[id] \in Settled
                => id \in processingQueueRef /\ id \notin processingQueueRef'
       /\ \A id \in processingQueueRef' : call'[id] \in InFlight \cup {"hung"}]_vars

\* C32 witness: in the enhanced variant one admitted segment is registered
\* with its call in flight and another has been cleaned up
C32_Witness ==
    /\ variant = "enhanced"
    /\ \E id \in processingQueueRef : id > firstChunk /\ call[id] = "encode"
    /\ \E id \in ChunkIds :
          id > firstChunk /\ call[id] \in Settled /\ id \notin processingQueueRef

\* C33: once stopListening has run and no start request is outstanding, no
\* microphone stream is live, the recording flag and the interval are
\* cleared, no first-chunk timer is armed and no recorder is capturing.
C33_StoppedIsQuiet ==
    (~isListening /\ pendingStarts = 0)
       => /\ liveStreams = {}
          /\ streamRef = 0
          /\ ~continuousRecordingRef
          /\ recordingIntervalRef = -1
          /\ \A r \in recorders : r.ended

\* a step in which startContinuousRecording is called
StartsRecording ==
    \/ variant = "basic" /\ streamRef' # streamRef /\ streamRef' # 0
    \/ variant = "enhanced" /\ Len(startTimers') < Len(startTimers)

\* C34: the repeating recording timer is armed exactly while the
\* continuous-recording flag is set and is armed only when none was armed;
\* startContinuousRecording called while already recording changes nothing
\* of the schedule; stop clears the timer and the flag.
C34_OneInterval ==
    [][/\ recordingIntervalRef' >= 0 <=> continuousRecordingRef'
       /\ continuousRecordingRef' /\ ~continuousRecordingRef
             => recordingIntervalRef = -1
       /\ StartsRecording /\ continuousRecordingRef
             => UNCHANGED <<continuousRecordingRef, recordingIntervalRef, session,
                            firstChunkTimers, recorders, chunkCounterRef>>
       /\ isListening /\ ~isListening'
             => ~continuousRecordingRef' /\ recordingIntervalRef' = -1]_vars

\* C34 witness: the second of two start requests has called
\* startContinuousRecording while the first one's interval was armed
C34_Witness ==
    /\ starts = 2 /\ pendingStarts = 0 /\ startTimers = <<>>
    /\ liveStreams = {1, 2}
    /\ continuousRecordingRef /\ recordingIntervalRef >= 0

\* C35: a running session keeps the maxConcurrentProcessing and chunkDuration
\* of the render whose start button was clicked: the closure is taken from
\* that click and stays as it is while recording; every tick re-arms the
\* interval with the closure's period and starts its recorder with the
\* closure's duration and limit; every admission leaves at most as many
\* entries in the queue as the limit the segment's recorder was started with.
C35_SessionKeepsSettings ==
    [][/\ continuousRecordingRef' /\ ~continuousRecordingRef
             => /\ session'.limit = Head(clicked).limit
                /\ session'.duration = Head(clicked).duration
       /\ continuousRecordingRef /\ continuousRecordingRef' => session' = session
       /\ recordingIntervalRef = 0 /\ recordingIntervalRef' > 0
             => /\ recordingIntervalRef' = TickPeriod(variant, session.duration)
                /\ \A r \in recorders' \ recorders :
                      r.limit = session.limit /\ r.duration = session.duration
                                             /\ r.t = session.duration
       /\ \A id \in processingQueueRef' \ processingQueueRef :
             \E r \in recorders :
                r.id = id /\ Cardinality(processingQueueRef') <= r.limit]_vars

\* C35 witness: both sliders were moved during the session, which goes on
\* with the values of its start: two calls are in flight under a slider
\* value of 1, and a recorder of the session runs for the old duration
C35_Witness ==
    /\ variant = "basic" /\ continuousRecordingRef
    /\ session.limit = 2 /\ maxConcurrentProcessing = 1
    /\ session.duration = BasicChunkDuration
    /\ chunkDuration = EnhancedChunkDuration
    /\ Cardinality(processingQueueRef) = 2
    /\ \E r \in recorders :
          ~r.ended /\ r.limit = 2 /\ r.duration = BasicChunkDuration

\* the recorders that are capturing
Recording == {r \in recorders : ~r.ended /\ r.t > 0}

\* C36: while recording is active the tick period is below the chunk
\* duration of the session; the recorder a tick starts finds the recorder of
\* the previous segment still capturing; and at no instant are more than two
\* recorders capturing.
C36_OverlapAtMostTwo ==
    [][/\ continuousRecordingRef'
             => /\ TickPeriod(variant, session'.duration) < session'.duration
                /\ recordingIntervalRef' <= TickPeriod(variant, session'.duration)
       /\ recordingIntervalRef = 0 /\ recordingIntervalRef' > 0
             => \A r \in recorders' \ recorders :
                   \E p \in Recording : p.id = r.id - 1
       /\ Cardinality(Recording') <= 2]_vars

\* C36 witness: a tick has just started a recorder while the previous one
\* has been capturing for one tick period
C36_Witness ==
    \E p, r \in Recording :
       /\ r.id = p.id + 1
       /\ r.t = r.duration
       /\ p.t = p.duration - TickPeriod(variant, session.duration)
       /\ recordingIntervalRef = TickPeriod(variant, session.duration)

\* C37: clearResponses empties the visible list and the pending buffer and
\* leaves the calls and their slots alone; a record enters the list or the
\* buffer only in the step that admits its segment, so that none of a segment
\* admitted before the clear comes back; the result of a call that was in
\* flight when clearResponses ran is not shown, and the call still releases
\* its slot when it settles.
C37_ClearedStaysCleared ==
    [][/\ clearedIds' \ clearedIds # {}
             => /\ responses' = <<>> /\ pendingResponsesRef' = <<>>
                /\ UNCHANGED <<call, processingQueueRef, activeProcessingCount>>
       /\ UNCHANGED call /\ responses # <<>> /\ responses' = <<>>
             => /\ pendingResponsesRef' = <<>>
                /\ clearedIds' = {id \in ChunkIds : call[id] \in InFlight \cup {"hung"}}
                /\ UNCHANGED <<processingQueueRef, activeProcessingCount>>
       /\ \A id \in clearedIds \cup clearedIds' :
             id \notin Ids(responses') \cup Ids(pendingResponsesRef')
       /\ \A id \in (Ids(responses') \cup Ids(pendingResponsesRef'))
                       \ (Ids(responses) \cup Ids(pendingResponsesRef)) :
             call[id] = "none"
       /\ \A id \in clearedIds :
             call[id] \in InFlight /\ call'[id] \in Settled
                => /\ id \in processingQueueRef /\ id \notin processingQueueRef'
                   /\ activeProcessingCount' = activeProcessingCount - 1]_vars

\* C37 witness: of two calls that were in flight when the list was cleared
\* one has succeeded, its result is not shown and its slot is free, and the
\* other is still running, while a segment admitted after the clear is shown
C37_Witness ==
    /\ \E id \in ChunkIds :
          /\ id > firstChunk /\ call[id] = "success" /\ id \notin processingQueueRef
          /\ id \notin Ids(responses) \cup Ids(pendingResponsesRef)
    /\ clearedIds # {}
    /\ \E id \in Ids(responses) : id \notin clearedIds /\ call[id] \in InFlight

====
